---- MODULE Spec2Model ----
(***************************************************************************)
(* GeminiService (src/services/ai-ml/app/services/gemini_service.py): the  *)
(* three operations process_business_query, generate_business_insights     *)
(* and optimize_query_performance, each one invocation of                  *)
(*   build prompt -> _generate_content -> strip fences -> json.loads ->    *)
(*   (defaults, metadata) -> return,                                       *)
(* called directly or by the POST /ai/query handler                        *)
(* process_natural_language_query (src/services/ai-ml/main.py).            *)
(*                                                                         *)
(* Text is a sequence of characters.  The backquote (written BQ: a TLA+    *)
(* string cannot hold that character), j s o n, the blank and x are single *)
(* characters; a JSON lexeme (a brace, a bracket, a scalar, a key-value    *)
(* member) is one character of the alphabet.                               *)
(* Python values are records [kind, map, items]: kind is the Python type,  *)
(* map a dict's content, items the elements of a list (both empty for the  *)
(* other types).  A float is written as the string of its literal ("0.7"), *)
(* None as "None".                                                         *)
(***************************************************************************)
EXTENDS Integers, Sequences, FiniteSets, TLC

VARIABLES
    op,             \* which operation this invocation is
    args,           \* its arguments
    pc,             \* position of the coroutine
    stages,         \* the stages entered so far, in order
    calls,          \* number of model.generate_content dispatches
    prompt,         \* the prompt built (<<>> before)
    response_text,  \* what _generate_content returned
    clean_response, \* the argument given to json.loads
    parsed_response,\* the value json.loads returned
    result,         \* the value returned to the caller
    raised,         \* the exception that escaped to the caller
    deadline,       \* TRUE once the caller's deadline has elapsed
    request,        \* the payload and user of a POST /ai/query request
    handler,        \* position of the request handler ("none": no request,
                    \* the operation is called directly)
    response        \* the HTTP response

corevars == <<op, args, pc, stages, calls, prompt, response_text, clean_response,
              parsed_response, result, raised, deadline>>

hvars == <<request, handler, response>>

vars == <<op, args, pc, stages, calls, prompt, response_text, clean_response,
          parsed_response, result, raised, deadline, request, handler, response>>

----------------------------------------------------------------------------
(* Bounds of the model *)

MaxPad == 1
MaxFence == 2
MaxMembers == 2
MaxOver == 1

----------------------------------------------------------------------------
(* Program constants *)

FenceOpenLen == 7
FenceCloseLen == 3
InterpMax == 500
InsightTail == 200

BQ == "'"
FenceOpen == <<BQ, BQ, BQ, "j", "s", "o", "n">>
FenceClose == <<BQ, BQ, BQ>>
Ellipsis == <<".", ".", ".">>
WS == " "

----------------------------------------------------------------------------
(* Python values *)

EmptyMap == [k \in {} |-> ""]
Unset == [kind |-> "unset", map |-> EmptyMap, items |-> {}]
PyDict(m) == [kind |-> "dict", map |-> m, items |-> {}]
PyList(xs) == [kind |-> "list", map |-> EmptyMap, items |-> xs]
PyOther(k) == [kind |-> k, map |-> EmptyMap, items |-> {}]
PyStr(t) == [kind |-> "str", map |-> EmptyMap, items |-> {}, text |-> t]

Put(d, k, v) == [x \in (DOMAIN d) \cup {k} |-> IF x = k THEN v ELSE d[x]]

----------------------------------------------------------------------------
(* str methods *)

RECURSIVE LStrip(_)
LStrip(s) == IF s # <<>> /\ Head(s) = WS THEN LStrip(Tail(s)) ELSE s

RECURSIVE RStrip(_)
RStrip(s) ==
    IF s # <<>> /\ s[Len(s)] = WS THEN RStrip(SubSeq(s, 1, Len(s) - 1)) ELSE s

StrStrip(s) == RStrip(LStrip(s))

StartsWith(s, p) == Len(s) >= Len(p) /\ SubSeq(s, 1, Len(p)) = p

EndsWith(s, p) == Len(s) >= Len(p) /\ SubSeq(s, Len(s) - Len(p) + 1, Len(s)) = p

\* s[n:]
DropFirst(s, n) == SubSeq(s, n + 1, Len(s))

\* s[:-n]
DropLast(s, n) == SubSeq(s, 1, Len(s) - n)

\* s[:n] written for s[-n:]: the first n characters instead of the last.
TakeLastFromFront(s, n) == SubSeq(s, 1, IF Len(s) < n THEN Len(s) ELSE n)

\* s[:n]
TakeFirst(s, n) == SubSeq(s, 1, IF Len(s) < n THEN Len(s) ELSE n)

\* s[-n:]
TakeLast(s, n) == SubSeq(s, IF Len(s) < n THEN 1 ELSE Len(s) - n + 1, Len(s))

\* The fence stripping without the strip() of the argument of json.loads.
StripFencesNoFinalStrip(t) ==
    LET a == StrStrip(t)
        b == IF StartsWith(a, FenceOpen) THEN DropFirst(a, FenceOpenLen) ELSE a
    IN  IF EndsWith(b, FenceClose) THEN DropLast(b, FenceCloseLen) ELSE b

\* The fence stripping of the three operations, up to the argument of json.loads.
StripFences(t) ==
    LET a == StrStrip(t)
        b == IF StartsWith(a, FenceOpen) THEN DropFirst(a, FenceOpenLen) ELSE a
        c == IF EndsWith(b, FenceClose) THEN DropLast(b, FenceCloseLen) ELSE b
    IN  StrStrip(c)

----------------------------------------------------------------------------
(* json.loads and json.dumps *)

\* The "key": value members a reply can hold, in the order they are written.
MemberLex ==
    <<"m:interpretation", "m:confidence", "m:key_insights", "m:optimized_query",
      "m:original_query", "m:organization_id", "m:processed_at">>

MemberKey(c) ==
    CASE c = "m:interpretation" -> "interpretation"
      [] c = "m:confidence" -> "confidence"
      [] c = "m:key_insights" -> "key_insights"
      [] c = "m:optimized_query" -> "optimized_query"
      [] c = "m:original_query" -> "original_query"
      [] c = "m:organization_id" -> "organization_id"
      [] c = "m:processed_at" -> "processed_at"

\* The value the model's reply gives the key.
MemberVal(c) ==
    CASE c = "m:interpretation" -> "Q revenue"
      [] c = "m:confidence" -> "0.9"
      [] c = "m:key_insights" -> "model insights"
      [] c = "m:optimized_query" -> "model sql"
      [] c = "m:original_query" -> "model query"
      [] c = "m:organization_id" -> "model org"
      [] c = "m:processed_at" -> "model time"

Range(q) == {q[i] : i \in DOMAIN q}
Members == Range(MemberLex)

\* The scalar documents: 1, "s", true, null.
Scalars == {"lit:1", "lit:str", "lit:true", "lit:null"}

ScalarKind(c) ==
    CASE c = "lit:1" -> "int"
      [] c = "lit:str" -> "str"
      [] c = "lit:true" -> "bool"
      [] c = "lit:null" -> "None"

\* A document nested deeper than the interpreter's recursion limit.
Deep == "lit:deep"

\* The list elements "interpretation", "confidence".
FieldNames == "lit:fields"

\* The dict of a member list: a later member of the same key wins.
MembersMap(ms) ==
    [k \in {MemberKey(ms[i]) : i \in DOMAIN ms} |->
        MemberVal(ms[CHOOSE i \in DOMAIN ms :
            /\ MemberKey(ms[i]) = k
            /\ \A j \in DOMAIN ms : MemberKey(ms[j]) = k => j <= i])]

\* json.loads(s): the value, or the exception raised (kind JSONDecodeError,
\* RecursionError).  Blanks between lexemes are skipped.
JsonLoads(s) ==
    LET t == SelectSeq(s, LAMBDA c : c # WS)
        n == Len(t)
    IN  IF n = 1 /\ t[1] = Deep THEN PyOther("RecursionError")
        ELSE IF n = 1 /\ t[1] \in Scalars THEN PyOther(ScalarKind(t[1]))
        ELSE IF t = <<"[", "]">> THEN PyList({})
        ELSE IF t = <<"[", FieldNames, "]">>
             THEN PyList({"interpretation", "confidence"})
        ELSE IF /\ n >= 2
                /\ t[1] = "{"
                /\ t[n] = "}"
                /\ \A i \in 2..(n - 1) : t[i] \in Members
             THEN PyDict(MembersMap(SubSeq(t, 2, n - 1)))
        ELSE PyOther("JSONDecodeError")

Raises(v) == v.kind \in {"JSONDecodeError", "RecursionError", "TypeError"}

\* json.dumps(v): the text, or TypeError for a value JSON cannot hold.
JsonDumps(v) ==
    IF v = "unserializable" THEN PyOther("TypeError")
    ELSE PyStr(<<"json", v>>)

----------------------------------------------------------------------------
(* Inputs *)

Ops == {"query", "insights", "optimize"}

\* context: None, a dict json.dumps accepts, a dict holding a value it rejects.
Contexts == {"None", "ctx", "unserializable"}

\* The payload of POST /ai/query: query absent, empty or a text; context
\* absent or a dict (parsed from JSON: json.dumps accepts it); and the
\* organization of the authenticated user.
Requests ==
    {[query |-> q, context |-> c, organization_id |-> "org1"] :
        q \in {"absent", "", "q1"}, c \in {"absent", "ctx"}}

NoRequest == [query |-> "absent", context |-> "absent", organization_id |-> "None"]

\* query_data.get("query"), query_data.get("context", {}) and
\* current_user['organization_id']: the arguments the handler calls
\* process_business_query with.
CallArgs(r) ==
    [query |-> IF r.query = "absent" THEN "None" ELSE r.query,
     context |-> IF r.context = "absent" THEN "{}" ELSE r.context,
     organization_id |-> r.organization_id]
Summaries == {"summary", "unserializable"}
Orgs == {"None", "org1"}

ArgsOf(o) ==
    CASE o = "query" ->
            {[query |-> "q1", context |-> c, organization_id |-> g] :
                c \in Contexts, g \in Orgs}
      [] o = "insights" ->
            {[data_summary |-> d, organization_id |-> g] :
                d \in Summaries, g \in Orgs}
      [] o = "optimize" -> {[sql_query |-> "sql1"]}

RECURSIVE Rep(_, _)
Rep(p, n) == IF n = 0 THEN <<>> ELSE p \o Rep(p, n - 1)

MemberSets == {S \in SUBSET Members : Cardinality(S) <= MaxMembers}

ObjectText(S) == <<"{">> \o SelectSeq(MemberLex, LAMBDA c : c \in S) \o <<"}">>

\* What a reply holds between its fences: nothing, prose, a broken document,
\* a list, a scalar, a too deep document, an object.
Bodies ==
    {<<>>, <<"x">>, <<"{">>, <<"[", "]">>, <<"[", FieldNames, "]">>}
        \cup {<<c>> : c \in Scalars \cup {Deep}}
        \cup {ObjectText(S) : S \in MemberSets}

\* Prose of n characters, n >= 2: an a, x's, a b.
Prose(n) == [i \in 1..n |-> IF i = 1 THEN "a" ELSE IF i = n THEN "b" ELSE "x"]

\* Prose as long as the two slicing limits of the text fallback, and up to
\* MaxOver characters longer.
LongTexts ==
    {Prose(InsightTail + k) : k \in 0..MaxOver}
        \cup {Prose(InterpMax + k) : k \in 0..MaxOver}

\* response.text: the body, blanks around it, fences around that, blanks
\* around those; or long prose.
ReplyTexts ==
    {Rep(<<WS>>, a) \o Rep(FenceOpen, f) \o Rep(<<WS>>, b) \o body
        \o Rep(<<WS>>, b) \o Rep(FenceClose, g) \o Rep(<<WS>>, a) :
        a \in 0..MaxPad, b \in 0..MaxPad, f \in 0..MaxFence, g \in 0..MaxFence,
        body \in Bodies}
        \cup LongTexts

\* asyncio.get_event_loop().time()
Times == {"t1", "t2"}

----------------------------------------------------------------------------
(* The values the operations return *)

NoText == [none |-> TRUE, text |-> <<>>]
Text(t) == [none |-> FALSE, text |-> t]

\* not response_text
Falsy(r) == r.none \/ r.text = <<>>

\* The return under "if not response_text" / after "if response_text".
UnavailableResult(o) ==
    CASE o = "query" ->
            [interpretation |-> "Failed to process query",
             confidence |-> "0.0",
             error |-> "Gemini service unavailable"]
      [] o = "insights" -> [error |-> "Failed to generate insights"]
      [] o = "optimize" -> [error |-> "Failed to optimize query"]

\* The return of the operation's "except Exception as e" handler.
ExceptResult(o, e) ==
    CASE o = "query" ->
            [interpretation |-> <<"Error processing query: ", e>>,
             confidence |-> "0.0",
             error |-> e]
      [] o = "insights" -> [error |-> e]
      [] o = "optimize" -> [error |-> e]

\* The return of the operation's "except json.JSONDecodeError" handler.
FallbackResult(o, a, t) ==
    CASE o = "query" ->
            [interpretation |->
                IF Len(t) > InterpMax THEN TakeFirst(t, InterpMax) \o Ellipsis ELSE t,
             insights |->
                IF Len(t) > InsightTail THEN <<TakeLast(t, InsightTail)>> ELSE <<t>>,
             confidence |-> "0.7",
             query_type |-> "general",
             original_query |-> a.query,
             organization_id |-> a.organization_id,
             note |-> "Response was not in JSON format, providing text fallback"]
      [] o = "insights" ->
            [key_insights |-> <<t>>,
             confidence |-> "0.7",
             note |-> "Fallback text response"]
      [] o = "optimize" ->
            [optimized_query |-> a.sql_query,
             suggestions |-> <<t>>,
             confidence |-> "0.5"]

\* required_fields and the default of each.
RequiredFields == {"interpretation", "confidence"}
DefaultOf(field) == IF field = "interpretation" THEN "Not provided" ELSE "0.5"

\* The loop over required_fields, on a dict.
WithDefaults(m) ==
    [k \in (DOMAIN m) \cup RequiredFields |->
        IF k \in DOMAIN m THEN m[k] ELSE DefaultOf(k)]

\* The loop over required_fields on a value that is no dict raises TypeError:
\* "field not in v" does for a number, a boolean or None; for a list or a
\* string the assignment v[field] = ... does, when a field is not in it.
LoopRaises(v) ==
    \/ v.kind \in {"int", "bool", "None"}
    \/ v.kind \in {"list", "str"} /\ ~(RequiredFields \subseteq v.items)

\* The three assignments under "Add metadata".
WithMetadata(m, a, now) ==
    Put(Put(Put(m, "original_query", a.query),
            "organization_id", a.organization_id),
        "processed_at", now)

----------------------------------------------------------------------------
(* The responses of POST /ai/query *)

NoResponse == [status |-> 0, detail |-> "", body |-> EmptyMap]

\* raise HTTPException(status_code=400, detail="Query is required")
QueryRequired == [status |-> 400, detail |-> "Query is required", body |-> EmptyMap]

\* The handler's "except Exception as e", whatever e is: HTTPException(500).
Caught(e) == [status |-> 500, detail |-> "Query processing failed", body |-> EmptyMap]

\* m.get(k, d)
Get(m, k, d) == IF k \in DOMAIN m THEN m[k] ELSE d

\* The mapping the handler returns.
ResponseBody(q, m) ==
    [status |-> 200,
     detail |-> "",
     body |-> [query |-> q,
               interpretation |-> m["interpretation"],
               sql_query |-> Get(m, "sql_query", "None"),
               visualization_config |-> Get(m, "visualization_config", "None"),
               insights |-> Get(m, "insights", <<>>),
               confidence |-> Get(m, "confidence", "0.0")]]

----------------------------------------------------------------------------
(* The invocation *)

Init ==
    /\ \/ /\ handler = "none"
          /\ request = NoRequest
          /\ op \in Ops
          /\ args \in ArgsOf(op)
       \/ /\ handler = "RECEIVED"
          /\ request \in Requests
          /\ op = "query"
          /\ args = CallArgs(request)
    /\ response = NoResponse
    /\ pc = "BUILDING"
    /\ stages = <<"BUILDING">>
    /\ calls = 0
    /\ prompt = <<>>
    /\ response_text = NoText
    /\ clean_response = <<>>
    /\ parsed_response = Unset
    /\ result = Unset
    /\ raised = "none"
    /\ deadline = FALSE

\* Control reaches stage s.
Goto(s) ==
    /\ pc' = s
    /\ stages' = Append(stages, s)

\* The operation's "except Exception as e" handler returns.
Except(e) ==
    /\ result' = PyDict(ExceptResult(op, e))
    /\ Goto("ERROR")

\* The embedded part of the prompt: the serialized context or data summary,
\* the query text.
PromptParts ==
    CASE op = "query" ->
            IF args.context \notin {"None", "{}"}
                THEN JsonDumps(args.context)
                ELSE PyStr(<<"No specific context provided">>)
      [] op = "insights" -> JsonDumps(args.data_summary)
      [] op = "optimize" -> PyStr(<<args.sql_query>>)

\* The f-string that builds the prompt.
Build ==
    /\ pc = "BUILDING"
    /\ IF Raises(PromptParts)
        THEN /\ Except(PromptParts.kind)
             /\ UNCHANGED prompt
        ELSE /\ prompt' = <<op>> \o PromptParts.text
             /\ Goto("INVOKING")
             /\ UNCHANGED result
    /\ UNCHANGED <<op, args, calls, response_text, clean_response,
                   parsed_response, raised, deadline>>

\* _generate_content hands model.generate_content to the executor and awaits.
Generate ==
    /\ pc = "INVOKING"
    /\ calls' = calls + 1
    /\ pc' = "SUSPENDED"
    /\ UNCHANGED <<op, args, stages, prompt, response_text, clean_response,
                   parsed_response, result, raised, deadline>>

\* Reply with a retry: on no text the backend is called again.
ReplyRetry ==
    /\ pc = "SUSPENDED"
    /\ \E r \in {NoText} \cup {Text(t) : t \in ReplyTexts} :
        /\ response_text' = r
        /\ IF Falsy(r) THEN Goto("INVOKING") ELSE Goto("EXTRACTING")
    /\ UNCHANGED <<op, args, calls, prompt, clean_response, parsed_response,
                   result, raised, deadline>>

\* The executor's future completes: with an exception (_generate_content
\* returns None) or with response.text; then the test of response_text.
Reply ==
    /\ pc = "SUSPENDED"
    /\ \E r \in {NoText} \cup {Text(t) : t \in ReplyTexts} :
        /\ response_text' = r
        /\ IF Falsy(r)
            THEN /\ result' = PyDict(UnavailableResult(op))
                 /\ Goto("FAILED")
            ELSE /\ Goto("EXTRACTING")
                 /\ UNCHANGED result
    /\ UNCHANGED <<op, args, calls, prompt, clean_response, parsed_response,
                   raised, deadline>>

\* The caller's deadline elapses while the coroutine is suspended: the task is
\* cancelled, CancelledError is raised at the await.  It is a BaseException:
\* neither "except Exception" catches it.
Deadline ==
    /\ pc = "SUSPENDED"
    /\ deadline' = TRUE
    /\ raised' = "CancelledError"
    /\ Goto("CANCELLED")
    /\ UNCHANGED <<op, args, calls, prompt, response_text, clean_response,
                   parsed_response, result>>

\* strip, the two fence tests, strip.
Extract ==
    /\ pc = "EXTRACTING"
    /\ clean_response' = StripFences(response_text.text)
    /\ Goto("VALIDATING")
    /\ UNCHANGED <<op, args, calls, prompt, response_text, parsed_response,
                   result, raised, deadline>>

\* json.loads and what follows it up to the metadata (process_business_query)
\* or the return (the other two).
Validate ==
    /\ pc = "VALIDATING"
    /\ LET v == JsonLoads(clean_response)
       IN  IF v.kind = "JSONDecodeError"
            THEN /\ result' = PyDict(FallbackResult(op, args, response_text.text))
                 /\ Goto("DONE")
                 /\ UNCHANGED parsed_response
           ELSE IF v.kind = "RecursionError"
            THEN /\ Except("RecursionError")
                 /\ UNCHANGED parsed_response
           ELSE IF op # "query"
            THEN /\ parsed_response' = v
                 /\ result' = v
                 /\ Goto("DONE")
           ELSE IF v.kind # "dict"
            THEN /\ parsed_response' = v
                 /\ IF LoopRaises(v)
                     THEN Except("TypeError")
                     ELSE Goto("ENRICHING") /\ UNCHANGED result
           ELSE /\ parsed_response' = PyDict(WithDefaults(v.map))
                /\ Goto("ENRICHING")
                /\ UNCHANGED result
    /\ UNCHANGED <<op, args, calls, prompt, response_text, clean_response,
                   raised, deadline>>

\* The metadata assignments and the return of process_business_query; the
\* first assignment raises TypeError on a value that is no dict.
Enrich ==
    /\ pc = "ENRICHING"
    /\ IF parsed_response.kind # "dict"
        THEN /\ Except("TypeError")
             /\ UNCHANGED parsed_response
        ELSE /\ \E now \in Times :
                /\ parsed_response' =
                        PyDict(WithMetadata(parsed_response.map, args, now))
                /\ result' = parsed_response'
             /\ Goto("DONE")
    /\ UNCHANGED <<op, args, calls, prompt, response_text, clean_response,
                   raised, deadline>>

\* The handler reads the payload: without a query it raises
\* HTTPException(400) inside its try, which its "except Exception" catches;
\* with one it calls process_business_query.
Receive ==
    /\ handler = "RECEIVED"
    /\ IF CallArgs(request).query \in {"None", ""}
        THEN /\ response' = Caught(QueryRequired)
             /\ handler' = "RESPONDED"
        ELSE /\ handler' = "AWAITING"
             /\ UNCHANGED response
    /\ UNCHANGED request
    /\ UNCHANGED corevars

\* process_business_query is over: the handler builds the response body
\* (KeyError without interpretation), or CancelledError passes through it.
Respond ==
    /\ handler = "AWAITING"
    /\ pc \in {"DONE", "FAILED", "ERROR", "CANCELLED"}
    /\ IF pc = "CANCELLED"
        THEN /\ handler' = "ABORTED"
             /\ UNCHANGED response
        ELSE /\ handler' = "RESPONDED"
             /\ response' =
                    IF result.kind = "dict" /\ "interpretation" \in DOMAIN result.map
                        THEN ResponseBody(args.query, result.map)
                        ELSE Caught("KeyError")
    /\ UNCHANGED request
    /\ UNCHANGED corevars

\* process_business_query runs when called: directly, or by the handler.
Called == handler \in {"none", "AWAITING"}

Next ==
    \/ Called /\ Build /\ UNCHANGED hvars
    \/ Called /\ Generate /\ UNCHANGED hvars
    \/ Called /\ Reply /\ UNCHANGED hvars
    \/ Called /\ Deadline /\ UNCHANGED hvars
    \/ Called /\ Extract /\ UNCHANGED hvars
    \/ Called /\ Validate /\ UNCHANGED hvars
    \/ Called /\ Enrich /\ UNCHANGED hvars
    \/ Receive
    \/ Respond

Spec == Init /\ [][Next]_vars

----------------------------------------------------------------------------
(* Properties *)

\* The invocation returned a value to its caller.
Returned == pc \in {"DONE", "FAILED", "ERROR"}

\* The invocation is over: it returned, or an exception escaped.
Finished == Returned \/ pc = "CANCELLED"

\* json.loads was given clean_response.
Extracted == pc \in {"VALIDATING", "ENRICHING"} \/ (Finished /\ Len(stages) > 3)

\* What json.loads makes of the fence-stripped reply.
Parsed == JsonLoads(StripFences(response_text.text))

HasField(v, f) == v.kind = "dict" /\ f \in DOMAIN v.map

FieldIs(v, f, x) == HasField(v, f) /\ v.map[f] = x

PrimaryField(o) ==
    CASE o = "query" -> "interpretation"
      [] o = "insights" -> "key_insights"
      [] o = "optimize" -> "optimized_query"

\* C1: whenever the generation call yields no text, the mapping returned has
\* confidence 0.0 and an error field, in each of the three operations.
C1_UnavailableIsZeroConfidenceError ==
    pc = "FAILED" => FieldIs(result, "confidence", "0.0") /\ HasField(result, "error")

\* C2: every value returned is a mapping that has a confidence field and the
\* operation's primary field or an error field.
C2_ReturnedShape ==
    Returned =>
        /\ HasField(result, "confidence")
        /\ HasField(result, PrimaryField(op)) \/ HasField(result, "error")

\* C3: a non-empty reply whose fence-stripped text is not valid JSON makes the
\* operation return, not raise, a mapping with confidence 0.7 and a note.
C3_NonJsonIsFallback07 ==
    (Finished /\ Extracted /\ Parsed.kind = "JSONDecodeError") =>
        /\ raised = "none"
        /\ FieldIs(result, "confidence", "0.7")
        /\ HasField(result, "note")

\* C4: a reply that parses to a JSON value that is no mapping gets the text
\* fallback: confidence 0.7 and a note, no error result, not the parsed value.
C4_NonMappingIsFallback ==
    (Finished /\ Extracted /\ Parsed.kind \in {"list", "str", "int", "bool", "None"}) =>
        /\ FieldIs(result, "confidence", "0.7")
        /\ HasField(result, "note")
        /\ ~HasField(result, "error")

\* The required fields of each operation, as the contract lists them.
RequiredOf(o) == IF o = "query" THEN {"interpretation", "confidence"} ELSE {"confidence"}

\* The mapping as validation leaves it: before the metadata in
\* process_business_query, the value returned in the other two.
AfterValidation == IF op = "query" THEN parsed_response ELSE result

\* C5: on a reply that parses to a mapping, validation adds every absent
\* required field with its default, keeps every parsed field's value, and
\* leaves a mapping that has every required field unchanged.
C5_ValidationDefaults ==
    (/\ Extracted
     /\ Parsed.kind = "dict"
     /\ (op = "query" /\ pc = "ENRICHING") \/ (op # "query" /\ pc = "DONE")) =>
        /\ AfterValidation.kind = "dict"
        /\ \A f \in RequiredOf(op) :
            /\ f \in DOMAIN AfterValidation.map
            /\ f \notin DOMAIN Parsed.map => AfterValidation.map[f] = DefaultOf(f)
        /\ \A k \in DOMAIN Parsed.map :
            /\ k \in DOMAIN AfterValidation.map
            /\ AfterValidation.map[k] = Parsed.map[k]
        /\ RequiredOf(op) \subseteq DOMAIN Parsed.map => AfterValidation.map = Parsed.map

\* C6: process_business_query returns every key of the parsed mapping with the
\* value the model's reply gave it; the metadata overwrites none.
C6_MetadataKeepsParsedKeys ==
    (op = "query" /\ pc = "DONE" /\ Parsed.kind = "dict") =>
        \A k \in DOMAIN Parsed.map : FieldIs(result, k, Parsed.map[k])

\* The raw text is a leading fence, some inner text, a trailing fence.
Wrapped(t) ==
    /\ Len(t) >= FenceOpenLen + FenceCloseLen
    /\ StartsWith(t, FenceOpen)
    /\ EndsWith(t, FenceClose)

Inner(t) == DropLast(DropFirst(t, FenceOpenLen), FenceCloseLen)

\* C7 as stated: fence stripping is idempotent on every raw text, and of a
\* fence, inner, fence it returns inner, nothing else removed.
C7_StripIdempotentExact ==
    Extracted =>
        /\ StripFences(clean_response) = clean_response
        /\ Wrapped(response_text.text) => clean_response = Inner(response_text.text)

\* C7 (amended): of a fence, inner, fence the stripping returns inner with its
\* leading and trailing whitespace removed and nothing else; applied to its own
\* output it returns that output unchanged whenever the output neither begins
\* with the opening fence nor ends with the closing fence.
C7_StripTrimsInner ==
    Extracted =>
        /\ Wrapped(response_text.text) =>
            clean_response = StrStrip(Inner(response_text.text))
        /\ (~StartsWith(clean_response, FenceOpen)
                /\ ~EndsWith(clean_response, FenceClose)) =>
            StripFences(clean_response) = clean_response

\* A fenced reply whose inner text has whitespace around a document: the
\* stripping removed the fences and that whitespace.
C7_Witness ==
    /\ pc = "VALIDATING"
    /\ Wrapped(response_text.text)
    /\ Inner(response_text.text) # clean_response
    /\ clean_response = ObjectText({"m:confidence"})

\* The stage sequences the contract's state machine allows.
FullPass == <<"BUILDING", "INVOKING", "EXTRACTING", "VALIDATING", "ENRICHING", "DONE">>
FailedPass == <<"BUILDING", "INVOKING", "FAILED">>

\* C8 as stated: every invocation passes BUILDING, INVOKING, EXTRACTING,
\* VALIDATING, ENRICHING, DONE in that order, or fails from INVOKING before
\* extraction and validation, and calls the backend exactly once.
C8_FixedPassOneCall ==
    Finished =>
        /\ calls = 1
        /\ stages = FullPass \/ stages = FailedPass

\* The place of a stage in the order; the ways an invocation ends share the last.
StageRank(st) ==
    CASE st = "BUILDING" -> 1
      [] st = "INVOKING" -> 2
      [] st = "EXTRACTING" -> 3
      [] st = "VALIDATING" -> 4
      [] st = "ENRICHING" -> 5
      [] st \in {"DONE", "FAILED", "ERROR", "CANCELLED"} -> 6

\* C8 (amended): every invocation enters its stages in the order BUILDING,
\* INVOKING, EXTRACTING, VALIDATING, ENRICHING, end, none twice, and calls
\* the backend at most once: exactly once unless building the prompt raised.
\* ENRICHING is entered only by process_business_query, after json.loads
\* returned a value; the other two operations and every text fallback go from
\* VALIDATING to DONE.  FAILED is entered only from INVOKING, and then neither
\* extraction nor validation has run.  An exception caught by the operation's
\* handler ends the invocation from the stage that raised it: BUILDING,
\* VALIDATING or ENRICHING.
C8_OrderedPassAtMostOneCall ==
    /\ \A i, j \in DOMAIN stages : i < j => StageRank(stages[i]) < StageRank(stages[j])
    /\ stages[Len(stages)] = (IF pc = "SUSPENDED" THEN "INVOKING" ELSE pc)
    /\ calls = (IF pc \in {"BUILDING", "INVOKING"} \/ stages = <<"BUILDING", "ERROR">>
                    THEN 0 ELSE 1)
    /\ pc = "ENRICHING" => op = "query" /\ Parsed.kind \notin {"JSONDecodeError", "RecursionError"}
    /\ pc = "DONE" =>
        \/ stages = FullPass /\ op = "query"
        \/ stages = <<"BUILDING", "INVOKING", "EXTRACTING", "VALIDATING", "DONE">>
    /\ pc = "FAILED" =>
        /\ stages = FailedPass
        /\ clean_response = <<>>
        /\ parsed_response = Unset
    /\ pc = "ERROR" =>
        stages \in {<<"BUILDING", "ERROR">>,
                    <<"BUILDING", "INVOKING", "EXTRACTING", "VALIDATING", "ERROR">>,
                    <<"BUILDING", "INVOKING", "EXTRACTING", "VALIDATING",
                      "ENRICHING", "ERROR">>}

\* generate_business_insights returned the parsed mapping: one backend call,
\* no ENRICHING stage.
C8_Witness ==
    /\ op = "insights"
    /\ pc = "DONE"
    /\ calls = 1
    /\ Parsed.kind = "dict"
    /\ stages = <<"BUILDING", "INVOKING", "EXTRACTING", "VALIDATING", "DONE">>

\* C9: an exception raised at any stage and caught by the operation's handler
\* does not escape: the operation returns a mapping with confidence 0.0 and an
\* error field that carries the exception's description.
C9_CaughtIsZeroConfidenceError ==
    pc = "ERROR" =>
        /\ raised = "none"
        /\ FieldIs(result, "confidence", "0.0")
        /\ HasField(result, "error")
        /\ result.map.error \in {"TypeError", "RecursionError"}

\* C10: once the caller's deadline has elapsed on an invocation suspended in
\* _generate_content, the invocation has resolved to the unavailability
\* result: confidence 0.0 and an error field, no exception.
C10_DeadlineIsUnavailable ==
    deadline =>
        /\ raised = "none"
        /\ FieldIs(result, "confidence", "0.0")
        /\ HasField(result, "error")

\* C11: process_business_query returns original_query, organization_id and
\* processed_at whichever path made the mapping: the validated JSON or the
\* text fallback.
C11_MetadataOnEveryPath ==
    (op = "query" /\ pc = "DONE") =>
        /\ HasField(result, "original_query")
        /\ HasField(result, "organization_id")
        /\ HasField(result, "processed_at")

\* The reply went to the operation's text fallback.
FellBack == pc = "DONE" /\ Extracted /\ Parsed.kind = "JSONDecodeError"

\* C12 as stated: in every operation's text fallback the interpretation is the
\* reply t when len(t) <= 500 and else its first 500 characters and "...",
\* 503 characters; the insights field is a one-element list of the last 200
\* characters of t when len(t) > 200 and else of t.
C12_FallbackSlicesEveryOperation ==
    FellBack =>
        LET t == response_text.text
            n == Len(t)
            notes == CASE op = "query" -> "insights"
                       [] op = "insights" -> "key_insights"
                       [] op = "optimize" -> "suggestions"
        IN  /\ HasField(result, "interpretation")
            /\ result.map.interpretation =
                    (IF n <= 500 THEN t ELSE SubSeq(t, 1, 500) \o <<".", ".", ".">>)
            /\ HasField(result, notes)
            /\ result.map[notes] = (IF n > 200 THEN <<SubSeq(t, n - 199, n)>> ELSE <<t>>)

\* C12 (amended): in the text fallback of process_business_query the
\* interpretation is the reply t when len(t) <= 500 and else its first 500
\* characters and "...", 503 characters; insights is a one-element list of
\* the last 200 characters of t when len(t) > 200 and else of t.  The
\* fallbacks of the other two operations have no interpretation field and
\* hold the whole of t, never cut, as the one element of key_insights
\* (generate_business_insights) or suggestions (optimize_query_performance).
C12_FallbackSlicesQueryOnly ==
    FellBack =>
        LET t == response_text.text
            n == Len(t)
        IN  CASE op = "query" ->
                    /\ HasField(result, "interpretation")
                    /\ result.map.interpretation =
                            (IF n <= 500 THEN t
                             ELSE SubSeq(t, 1, 500) \o <<".", ".", ".">>)
                    /\ n > 500 => Len(result.map.interpretation) = 503
                    /\ HasField(result, "insights")
                    /\ result.map.insights =
                            (IF n > 200 THEN <<SubSeq(t, n - 199, n)>> ELSE <<t>>)
              [] op = "insights" ->
                    /\ ~HasField(result, "interpretation")
                    /\ FieldIs(result, "key_insights", <<t>>)
              [] op = "optimize" ->
                    /\ ~HasField(result, "interpretation")
                    /\ FieldIs(result, "suggestions", <<t>>)

\* process_business_query fell back on a reply of more than 500 characters:
\* both fields are cut.
C12_Witness ==
    /\ op = "query"
    /\ FellBack
    /\ Len(response_text.text) > InterpMax
    /\ Len(result.map.interpretation) = InterpMax + 3
    /\ Len(result.map.insights[1]) = InsightTail

\* C13: POST /ai/query with no query or an empty query is answered with status
\* 400, "Query is required", and the backend is not called for it.
C13_MissingQueryIs400 ==
    (handler = "RESPONDED" /\ request.query \in {"absent", ""}) =>
        /\ response.status = 400
        /\ response.detail = "Query is required"
        /\ calls = 0

====
